---- MODULE Spec2Model ----
(***************************************************************************)
(* Model of the asynchronous TMP117 driver (src/asynchronous/mod.rs) on    *)
(* top of its low level register accessor (src/asynchronous/tmp117_ll.rs)  *)
(* and the register layout of src/register.rs.                             *)
(*                                                                         *)
(* Every driver operation is an action that advances by one register       *)
(* access (or one alert line wait) per step: these are the await points of *)
(* the source.  pc names the await the running operation is suspended at.  *)
(* The device on the other end of the bus is the environment.              *)
(*                                                                         *)
(* Celsius values (f32 in the source) are carried in fixed point, in       *)
(* units of 1/256 degree, which represents every multiple of half a        *)
(* register LSB exactly.                                                   *)
(***************************************************************************)
EXTENDS Integers, Sequences, FiniteSets, TLC

VARIABLES
    mode,      \* mode tag of the driver handle, "None" when no handle exists
    alert,     \* Option<AlertPin<P>>: "NoPin", "Unkown", "DataReady", "Alert"
    dev,       \* the device: the registers it keeps
    pc,        \* await point of the running operation, "idle" between calls
    op,        \* the running (or last finished) operation and its arguments
    local,     \* the register value held across an await (edit's `val`)
    trace,     \* i2c transactions issued by the running (or last) operation
    result,    \* what the last finished operation returned
    lastWait   \* history: condition watched by the last successful wait_*

vars == <<mode, alert, dev, pc, op, local, trace, result, lastWait>>

----------------------------------------------------------------------------
(* Bounds of the model *)

\* most Configuration polls for which the device keeps eeprom_busy set
MaxBusy == 2
\* most Configuration polls for which the device keeps data_ready clear
MaxNotReady == 3
\* most alert polls of one wait_alert that find no alert flag set
MaxQuiet == 2

----------------------------------------------------------------------------
(* Register addresses, src/register.rs *)

TemperatureAddr == 0
ConfigurationAddr == 1
HighLimitAddr == 2
LowLimitAddr == 3
UEEPROM1Addr == 5
UEEPROM2Addr == 6
UEEPROM3Addr == 7
TemperatureOffsetAddr == 8

(* Field values, src/register.rs *)
AlertPinSelect_Alert == 0
AlertPinSelect_DataReady == 1
Polarity_ActiveLow == 0
Polarity_ActiveHigh == 1
Average_NoAverage == 0
Average_Avg8 == 1
Average_Avg64 == 3
Conversion_Ms125 == 1
Conversion_Ms1000 == 4
ConversionMode_Continuous == 0
ConversionMode_Shutdown == 1
ConversionMode_OneShot == 3
\* the 2-bit mode pattern that ConversionMode has no variant for
ConversionMode_Reserved == 2

Pow2(n) == 2 ^ n

\* number of values of a u16
U16 == Pow2(16)

\* the n-bit field of word w that starts at bit lo (bit 0 is the LSB)
Field(w, lo, n) == (w \div Pow2(lo)) % Pow2(n)

\* word w with that field replaced by v
WithField(w, lo, n, v) == w - Field(w, lo, n) * Pow2(lo) + (v % Pow2(n)) * Pow2(lo)

(* Configuration, fields in declaration order from bit 0 *)
reset_bit(r) == Field(r, 1, 1) = 1
dr_alert(r) == Field(r, 2, 1)
polarity(r) == Field(r, 3, 1)
trigger_mode(r) == Field(r, 4, 1)
average(r) == Field(r, 5, 2)
conversion(r) == Field(r, 7, 3)
cfg_mode(r) == Field(r, 10, 2)
eeprom_busy(r) == Field(r, 12, 1) = 1
data_ready_any(r) == TRUE
data_ready(r) == Field(r, 13, 1) = 1
low_alert(r) == Field(r, 14, 1) = 1
high_alert(r) == Field(r, 15, 1) = 1

with_reset(r, b) == WithField(r, 1, 1, IF b THEN 1 ELSE 0)
with_dr_alert(r, v) == WithField(r, 2, 1, v)
with_polarity(r, v) == WithField(r, 3, 1, v)
with_average(r, v) == WithField(r, 5, 2, v)
with_conversion(r, v) == WithField(r, 7, 3, v)
\* the mode set in a word that is otherwise zero, not in the word read
with_mode_fresh(r, v) == WithField(0, 10, 2, v)
with_mode(r, v) == WithField(r, 10, 2, v)

\* u16::to_be_bytes and u16::from_be_bytes
to_be_bytes(w) == <<w \div 256, w % 256>>
from_be_bytes(b) == b[1] * 256 + b[2]

\* `x as i16` of a u16
AsI16(w) == IF w >= 32768 THEN w - U16 ELSE w

\* two's complement 16-bit encoding of a signed count
TwosComplement16(k) == (k + U16) % U16


----------------------------------------------------------------------------
(* Celsius values.  CELCIUS_CONVERSION is 0.0078125 degree per LSB; in the  *)
(* fixed point of this model (1/256 degree) that is 2.                      *)

CELCIUS_CONVERSION == 2

\* x degrees Celsius, x an integer
Celsius(x) == x * 128 * CELCIUS_CONVERSION

\* `(val / CELCIUS_CONVERSION) as u16`: the f32 quotient is truncated toward
\* zero and saturated to the range of u16
f32_div_as_u16(val) ==
    LET q == IF val >= 0 THEN val \div CELCIUS_CONVERSION
                         ELSE -((-val) \div CELCIUS_CONVERSION)
    IN  IF q < 0 THEN 0 ELSE IF q > U16 - 1 THEN U16 - 1 ELSE q

\* the decode without the `as i16`
temp_celsius_unsigned(w) == w * CELCIUS_CONVERSION

\* `(u16::from(temp) as i16) as f32 * CELCIUS_CONVERSION`
temp_celsius(w) == AsI16(w) * CELCIUS_CONVERSION

----------------------------------------------------------------------------
(* Inputs the application passes and values the environment answers with *)

Some(v) == [some |-> TRUE, v |-> v]
None == [some |-> FALSE, v |-> 0]

\* ContinousConfig values passed to to_continuous
ContinousConfigs ==
    { [average |-> None, conversion |-> None, high |-> None, low |-> None, offset |-> None],
      [average |-> Some(Average_Avg64), conversion |-> Some(Conversion_Ms125),
       high |-> Some(Celsius(25)), low |-> Some(Celsius(-1)), offset |-> None],
      [average |-> None, conversion |-> None,
       high |-> None, low |-> None, offset |-> Some(Celsius(1))],
      [average |-> Some(Average_NoAverage), conversion |-> None,
       high |-> None, low |-> Some(CELCIUS_CONVERSION), offset |-> Some(-CELCIUS_CONVERSION)] }

\* Average values passed to to_oneshot
Averages == {Average_NoAverage, Average_Avg64}

\* the scratch cells as they are at power-up
BlankEeprom == <<0, 0, 0>>

\* values passed to write_eeprom
EepromValues == { <<1, 2, 3>>, <<U16 - 1, 0, 1>> }

\* raw Temperature register values the device answers with
TempRaws == {0, 1, Pow2(15) - 1, Pow2(15), U16 - 1}

\* Configuration of the device at power-up: the writable fields
PowerUpConfigs ==
    { with_conversion(with_average(0, Average_Avg8), Conversion_Ms1000),
      WithField(with_polarity(0, Polarity_ActiveLow), 4, 1, 1) }

\* the tag of a handle that was consumed by a call and not handed back
Dropped == "None"


----------------------------------------------------------------------------
(* The device (the environment).  It keeps the writable fields of           *)
(* Configuration and the read/write registers; the status flags of          *)
(* Configuration (eeprom_busy, data_ready, low_alert, high_alert) and the   *)
(* Temperature are what the environment answers at each read.               *)

\* bits 1 .. 11 of Configuration: the fields that have setters
Writable(w) == Field(w, 1, 11) * 2

\* the four status flags as a number: busy + 2 data_ready + 4 low + 8 high
StatusBits(flags) == flags * Pow2(12)
Busy == 1
Ready == 2
LowAlert == 4
HighAlert == 8

PowerUp(cfg, ee) ==
    [cfg |-> cfg, high |-> Pow2(14) + Pow2(13), low |-> Pow2(15), off |-> 0, ee |-> ee]

ScratchIndex(a) == a - UEEPROM1Addr + 1

\* the word the device answers a read of register a with; flags and t are the
\* status flags and the temperature at that moment
DevWord(d, a, flags, t) ==
    IF a = TemperatureAddr THEN t
    ELSE IF a = ConfigurationAddr THEN Writable(d.cfg) + StatusBits(flags)
    ELSE IF a = HighLimitAddr THEN d.high
    ELSE IF a = LowLimitAddr THEN d.low
    ELSE IF a = TemperatureOffsetAddr THEN d.off
    ELSE d.ee[ScratchIndex(a)]

\* the device after a write of word w to register a; a write of the reset bit
\* brings it back to the power-up configuration cfg0 (the bit reads back 0)
DevWrite(d, a, w, cfg0) ==
    IF a = ConfigurationAddr
    THEN IF reset_bit(w) THEN PowerUp(cfg0, d.ee) ELSE [d EXCEPT !.cfg = Writable(w)]
    ELSE IF a = HighLimitAddr THEN [d EXCEPT !.high = w]
    ELSE IF a = LowLimitAddr THEN [d EXCEPT !.low = w]
    ELSE IF a = TemperatureOffsetAddr THEN [d EXCEPT !.off = w]
    ELSE [d EXCEPT !.ee[ScratchIndex(a)] = w]

\* the configurations a write of word w to register a may leave a reset device in
ResetConfigs(a, w) ==
    IF a = ConfigurationAddr /\ reset_bit(w) THEN PowerUpConfigs ELSE {0}

----------------------------------------------------------------------------
(* Tmp117LL: register access over i2c, src/asynchronous/tmp117_ll.rs *)

I2cWrite(bytes, ok) == [kind |-> "write", bytes |-> bytes, ok |-> ok]
I2cRead(bytes, ok) == [kind |-> "read", bytes |-> bytes, ok |-> ok]

ReadOutcomes == {"ok", "fail_addr", "fail_data"}

\* read<R>() going on to the data read when the address write has failed
ll_read_through(a, st, word) ==
    [ok |-> st = "ok",
     val |-> IF st = "ok" THEN from_be_bytes(to_be_bytes(word)) ELSE 0,
     tx |-> <<I2cWrite(<<a>>, st # "fail_addr"),
              I2cRead(IF st = "ok" THEN to_be_bytes(word) ELSE <<>>, st = "ok")>>]

\* read<R>(): the address is written, then two bytes are read, big endian.
\* st is how the bus fares, word what the device holds.
ll_read(a, st, word) ==
    [ok |-> st = "ok",
     val |-> IF st = "ok" THEN from_be_bytes(to_be_bytes(word)) ELSE 0,
     tx |-> IF st = "fail_addr"
            THEN <<I2cWrite(<<a>>, FALSE)>>
            ELSE <<I2cWrite(<<a>>, TRUE),
                   I2cRead(IF st = "ok" THEN to_be_bytes(word) ELSE <<>>, st = "ok")>>]

\* write_internal sending its packet a second time
write_internal_twice(a, val, ok) ==
    [ok |-> ok, tx |-> <<I2cWrite(<<a>> \o to_be_bytes(val), ok), I2cWrite(<<a>> \o to_be_bytes(val), ok)>>]

\* write_internal(reg): one write of the address and the two bytes, big endian
write_internal(a, val, ok) ==
    [ok |-> ok, tx |-> <<I2cWrite(<<a>> \o to_be_bytes(val), ok)>>]

\* a register read against the device: the accessor's result and the device after
ReadReg(a, st, flags, t) ==
    LET r == ll_read(a, st, DevWord(dev, a, flags, t))
    IN  [ok |-> r.ok, val |-> r.val, tx |-> r.tx]

\* a register write against the device
WriteReg(a, val, ok, cfg0) ==
    LET w == write_internal(a, val, ok)
    IN  [ok |-> w.ok, tx |-> w.tx,
         dev |-> IF w.ok THEN DevWrite(dev, a, from_be_bytes(SubSeq(w.tx[1].bytes, 2, 3)), cfg0)
                         ELSE dev]


----------------------------------------------------------------------------
(* Tmp117: the driver, src/asynchronous/mod.rs *)

NoResult == [st |-> "none", temp |-> 0, alert |-> "", ee |-> <<>>]
ResOk == [st |-> "Ok", temp |-> 0, alert |-> "", ee |-> <<>>]
ResTemp(v) == [st |-> "Ok", temp |-> v, alert |-> "", ee |-> <<>>]
ResAlert(a) == [st |-> "Ok", temp |-> 0, alert |-> a, ee |-> <<>>]
ResEeprom(v) == [st |-> "Ok", temp |-> 0, alert |-> "", ee |-> v]
ResErr(e) == [st |-> e, temp |-> 0, alert |-> "", ee |-> <<>>]

\* the status flags answered to the read of an edit
EditFlags == {0, Busy + Ready + LowAlert + HighAlert}

\* history: the values of the write_eeprom that has just returned Ok, <<>> when
\* the operation before this one was anything else
JustWritten == IF pc = "idle" /\ op.name = "write_eeprom" /\ result.st = "Ok" THEN op.arg ELSE <<>>

\* history: no other bus master has written Configuration during the operation
NoExternal == -1

NewOp(name, arg) ==
    [name |-> name, arg |-> arg, mode0 |-> mode, prevWait |-> lastWait, written |-> JustWritten,
     ext |-> NoExternal]

Set(m, al, d, p, l, tr, res) ==
    /\ mode' = m
    /\ alert' = al
    /\ dev' = d
    /\ pc' = p
    /\ local' = l
    /\ trace' = tr
    /\ result' = res

Init ==
    /\ mode = "Unknown"
    /\ alert \in {"NoPin", "Unkown"}
    /\ dev \in {PowerUp(c, BlankEeprom) : c \in PowerUpConfigs}
    /\ pc = "idle"
    /\ op = [name |-> "new", arg |-> 0, mode0 |-> Dropped, prevWait |-> "none", written |-> <<>>,
             ext |-> NoExternal]
    /\ local = 0
    /\ trace = <<>>
    /\ result = NoResult
    /\ lastWait = "none"

\* Tmp117::new(i2c, alert): a handle in Unknown mode, once the previous one is gone
new ==
    /\ pc = "idle"
    /\ mode = Dropped
    /\ op' = NewOp("new", 0)
    /\ Set("Unknown", IF alert = "NoPin" THEN "NoPin" ELSE "Unkown", dev, "idle", 0, <<>>, NoResult)
    /\ lastWait' = "none"

(* The closures handed to edit *)

\* to_continuous_f with `config.average.unwrap_or_default()` set unconditionally
to_continuous_f_unwrap(r, config) ==
    LET r1 == with_average(with_mode(r, ConversionMode_Continuous), config.average.v)
    IN  IF config.conversion.some THEN with_conversion(r1, config.conversion.v) ELSE r1

to_continuous_f(r, config) ==
    LET r1 == with_mode(r, ConversionMode_Continuous)
        r2 == IF config.average.some THEN with_average(r1, config.average.v) ELSE r1
    IN  IF config.conversion.some THEN with_conversion(r2, config.conversion.v) ELSE r2

\* the closure of to_oneshot with the average left as read
to_oneshot_f_mode_only(r, avg) == with_mode(r, ConversionMode_OneShot)

to_oneshot_f(r, avg) == with_average(with_mode(r, ConversionMode_OneShot), avg)

\* the closure of to_shutdown setting the mode of to_continuous
to_shutdown_f_continuous(r) == with_mode(r, ConversionMode_Continuous)

to_shutdown_f(r) == with_mode(r, ConversionMode_Shutdown)

reset_f(r) == with_reset(r, TRUE)

wait_read_temp_f(r) == with_polarity(with_dr_alert(r, AlertPinSelect_DataReady), Polarity_ActiveHigh)

wait_alert_f(r) == with_polarity(with_dr_alert(r, AlertPinSelect_Alert), Polarity_ActiveHigh)

\* edit, first half: `let val: R = self.read().await?`.  The operation named
\* name starts with it; on an error it returns, leaving the handle in failMode.
EditRead(name, arg, nextpc, failMode) ==
    \E st \in ReadOutcomes, flags \in EditFlags :
        LET r == ReadReg(ConfigurationAddr, st, flags, 0)
        IN  /\ op' = NewOp(name, arg)
            /\ IF r.ok
               THEN Set(mode, alert, dev, nextpc, r.val, r.tx, NoResult)
               ELSE Set(failMode, alert, dev, "idle", 0, r.tx, ResErr("Bus"))

\* a transition whose only bus traffic is one edit of Configuration:
\* second half of the edit, `self.write_internal(new_val).await`, then the
\* handle in its new mode
EditWriteReturn(new_val, okMode) ==
    \E ok \in BOOLEAN, cfg0 \in ResetConfigs(ConfigurationAddr, new_val) :
        LET w == WriteReg(ConfigurationAddr, new_val, ok, cfg0)
        IN  IF w.ok
            THEN Set(okMode, alert, w.dev, "idle", 0, trace \o w.tx, ResOk)
            ELSE Set(Dropped, alert, w.dev, "idle", 0, trace \o w.tx, ResErr("Bus"))

\* the limits taken low first, then high
tc_after_low_first(k, config) ==
    IF k = 1 /\ config.low.some THEN "tc_low"
    ELSE IF k \in {1, 3} /\ config.high.some THEN "tc_high"
    ELSE IF k < 4 /\ config.offset.some THEN "tc_offset"
    ELSE "idle"

\* the await of to_continuous that follows stage k (1 the edit, 2 high, 3 low,
\* 4 offset), "idle" when none is left
tc_after(k, config) ==
    IF k < 2 /\ config.high.some THEN "tc_high"
    ELSE IF k < 3 /\ config.low.some THEN "tc_low"
    ELSE IF k < 4 /\ config.offset.some THEN "tc_offset"
    ELSE "idle"

\* one step of to_continuous: the write of word val to register a at stage k
tc_write(k, a, val) ==
    \E ok \in BOOLEAN, cfg0 \in ResetConfigs(a, val) :
        LET w == WriteReg(a, val, ok, cfg0)
            next == tc_after(k, op.arg)
        IN  IF ~w.ok
            THEN Set(Dropped, alert, w.dev, "idle", 0, trace \o w.tx, ResErr("Bus"))
            ELSE IF next = "idle"
            THEN Set("Continuous", alert, w.dev, "idle", 0, trace \o w.tx, ResOk)
            ELSE Set(mode, alert, w.dev, next, 0, trace \o w.tx, NoResult)

to_continuous_with(configs) ==
    /\ \/ /\ pc = "idle"
          /\ mode # Dropped
          /\ \E config \in configs : EditRead("to_continuous", config, "tc_edit", Dropped)
       \/ /\ pc = "tc_edit"
          /\ tc_write(1, ConfigurationAddr, to_continuous_f(local, op.arg))
          /\ UNCHANGED op
       \/ /\ pc = "tc_high"
          /\ tc_write(2, HighLimitAddr, f32_div_as_u16(op.arg.high.v))
          /\ UNCHANGED op
       \/ /\ pc = "tc_low"
          /\ tc_write(3, LowLimitAddr, f32_div_as_u16(op.arg.low.v))
          /\ UNCHANGED op
       \/ /\ pc = "tc_offset"
          /\ tc_write(4, TemperatureOffsetAddr, f32_div_as_u16(op.arg.offset.v))
          /\ UNCHANGED op
    /\ UNCHANGED lastWait

to_continuous == to_continuous_with(ContinousConfigs)

to_oneshot ==
    /\ \/ /\ pc = "idle"
          /\ mode # Dropped
          /\ \E avg \in Averages : EditRead("to_oneshot", avg, "to_edit", Dropped)
       \/ /\ pc = "to_edit"
          /\ EditWriteReturn(to_oneshot_f(local, op.arg), "OneShot")
          /\ UNCHANGED op
    /\ UNCHANGED lastWait

to_shutdown ==
    /\ \/ /\ pc = "idle"
          /\ mode # Dropped
          /\ EditRead("to_shutdown", 0, "ts_edit", Dropped)
       \/ /\ pc = "ts_edit"
          /\ EditWriteReturn(to_shutdown_f(local), "Shutdown")
          /\ UNCHANGED op
    /\ UNCHANGED lastWait

reset ==
    /\ \/ /\ pc = "idle"
          /\ mode # Dropped
          /\ EditRead("reset", 0, "rs_edit", Dropped)
       \/ /\ pc = "rs_edit"
          /\ EditWriteReturn(reset_f(local), "Unknown")
          /\ UNCHANGED op
    /\ UNCHANGED lastWait

(* Operations of every mode: the EEPROM scratch cells *)

\* the cells from the last to the first
UEEPROMAddr_reversed == <<UEEPROM3Addr, UEEPROM2Addr, UEEPROM1Addr>>

UEEPROMAddr == <<UEEPROM1Addr, UEEPROM2Addr, UEEPROM3Addr>>
PollPc == <<"we_poll1", "we_poll2", "we_poll3">>
WritePc == <<"we_write1", "we_write2", "we_write3">>

\* the number of Configuration polls that read eeprom_busy set at the end of tr
RECURSIVE TrailingBusy(_)
TrailingBusy(tr) ==
    LET n == Len(tr)
    IN  IF /\ n >= 2
           /\ tr[n].kind = "read"
           /\ tr[n].ok
           /\ tr[n - 1].bytes = <<ConfigurationAddr>>
           /\ eeprom_busy(from_be_bytes(tr[n].bytes))
        THEN 1 + TrailingBusy(SubSeq(tr, 1, n - 2))
        ELSE 0

\* the status flags the device answers a busy poll with
PollFlags(tr) == {Ready} \cup (IF TrailingBusy(tr) < MaxBusy THEN {Busy} ELSE {})

\* wait_eeprom without its loop: one poll, whatever it reads
wait_eeprom_once(configuration) == FALSE

\* wait_eeprom giving up the wait at the second poll that reads busy
wait_eeprom_bounded(configuration) == eeprom_busy(configuration) /\ TrailingBusy(trace) < 1

\* wait_eeprom's loop condition: `while configuration.eeprom_busy()`
wait_eeprom_again(configuration) == eeprom_busy(configuration)

\* the status flags of a device that may keep eeprom_busy set at every poll
\* (data_ready comes and goes once the polls are beyond those of the trace)
PollFlagsAnyTime(tr) ==
    {Ready, Busy} \cup (IF TrailingBusy(tr) >= MaxBusy THEN {Busy + Ready} ELSE {})

\* the trace after one more poll that read busy: polls that read busy beyond
\* MaxBusy in a row are left out of it
Polled(tr, tx) == IF TrailingBusy(tr) >= MaxBusy THEN tr ELSE tr \o tx

\* one Configuration read of wait_eeprom before the write of cell i, tr the
\* trace so far, flagset what the device may answer; `configuration` is held
\* for the test of the loop
wait_eeprom_on(i, tr, flagset) ==
    \E st \in ReadOutcomes, flags \in flagset :
        LET r == ReadReg(ConfigurationAddr, st, flags, 0)
        IN  IF ~r.ok
            THEN Set(mode, alert, dev, "idle", 0, tr \o r.tx, ResErr("Bus"))
            ELSE IF wait_eeprom_again(r.val)
            THEN Set(mode, alert, dev, PollPc[i], r.val, Polled(tr, r.tx), NoResult)
            ELSE Set(mode, alert, dev, WritePc[i], 0, tr \o r.tx, NoResult)

\* wait_eeprom against a device that clears eeprom_busy within MaxBusy polls
wait_eeprom(i, tr) == wait_eeprom_on(i, tr, PollFlags(tr))

\* the cells taken from the last to the first
write_eeprom_cell_reversed(i) == UEEPROMAddr[4 - i]

\* the cell written at the i-th write of write_eeprom and the value it gets
write_eeprom_cell(i) == UEEPROMAddr[i]

\* every cell given the first value
write_eeprom_value_first(values, i) == values[1]

write_eeprom_value(values, i) == values[i]

\* the write of cell i
write_cell(i) ==
    \E ok \in BOOLEAN :
        LET w == WriteReg(write_eeprom_cell(i), write_eeprom_value(op.arg, i), ok, 0)
        IN  IF ~w.ok
            THEN Set(mode, alert, w.dev, "idle", 0, trace \o w.tx, ResErr("Bus"))
            ELSE IF i < 3
            THEN Set(mode, alert, w.dev, PollPc[i + 1], 0, trace \o w.tx, NoResult)
            ELSE Set(mode, alert, w.dev, "idle", 0, trace \o w.tx, ResOk)

\* write_eeprom; with forever the device may keep eeprom_busy set at every poll
write_eeprom_env(valueset, forever) ==
    /\ \/ /\ pc = "idle"
          /\ mode # Dropped
          /\ \E values \in valueset : op' = NewOp("write_eeprom", values)
          /\ IF forever THEN wait_eeprom_on(1, <<>>, PollFlagsAnyTime(<<>>)) ELSE wait_eeprom(1, <<>>)
       \/ /\ \E i \in 1 .. 3 :
                /\ pc = PollPc[i]
                /\ IF forever THEN wait_eeprom_on(i, trace, PollFlagsAnyTime(trace)) ELSE wait_eeprom(i, trace)
          /\ UNCHANGED op
       \/ /\ \E i \in 1 .. 3 : pc = WritePc[i] /\ write_cell(i)
          /\ UNCHANGED op
    /\ UNCHANGED lastWait

write_eeprom_with(valueset) == write_eeprom_env(valueset, FALSE)

write_eeprom == write_eeprom_with(EepromValues)

\* one read of read_eeprom: cell i, after the values in got
read_cell(i, got, tr) ==
    \E st \in ReadOutcomes :
        LET r == ReadReg(UEEPROMAddr[i], st, 0, 0)
        IN  IF ~r.ok
            THEN Set(mode, alert, dev, "idle", 0, tr \o r.tx, ResErr("Bus"))
            ELSE IF i < 3
            THEN Set(mode, alert, dev, IF i = 1 THEN "re_u2" ELSE "re_u3",
                     Append(got, r.val), tr \o r.tx, NoResult)
            ELSE Set(mode, alert, dev, "idle", 0, tr \o r.tx, ResEeprom(Append(got, r.val)))

read_eeprom ==
    /\ \/ /\ pc = "idle"
          /\ mode # Dropped
          /\ op' = NewOp("read_eeprom", 0)
          /\ read_cell(1, <<>>, <<>>)
       \/ /\ pc = "re_u2"
          /\ read_cell(2, local, trace)
          /\ UNCHANGED op
       \/ /\ pc = "re_u3"
          /\ read_cell(3, local, trace)
          /\ UNCHANGED op
    /\ UNCHANGED lastWait

(* OneShot mode *)

\* the status flags the device answers a read_temp with
TempFlags == {0, Busy, Ready, Ready + HighAlert}

\* read_temp handing back the handle as it came
read_temp_oneshot_mode_kept == "OneShot"

\* the mode of the handle read_temp returns beside the temperature
read_temp_oneshot_mode == "Shutdown"

\* Tmp117<OneShotMode>::read_temp(mut self)
read_temp_oneshot ==
    /\ \/ /\ pc = "idle"
          /\ mode = "OneShot"
          /\ op' = NewOp("read_temp_oneshot", 0)
          /\ \E st \in ReadOutcomes, flags \in TempFlags :
                LET r == ReadReg(ConfigurationAddr, st, flags, 0)
                IN  IF ~r.ok
                    THEN Set(Dropped, alert, dev, "idle", 0, r.tx, ResErr("Bus"))
                    ELSE IF ~data_ready(r.val)
                    THEN Set(Dropped, alert, dev, "idle", 0, r.tx, ResErr("DataNotReady"))
                    ELSE Set(mode, alert, dev, "ro_temp", 0, r.tx, NoResult)
       \/ /\ pc = "ro_temp"
          /\ UNCHANGED op
          /\ \E st \in ReadOutcomes, t \in TempRaws :
                LET r == ReadReg(TemperatureAddr, st, 0, t)
                IN  IF ~r.ok
                    THEN Set(Dropped, alert, dev, "idle", 0, trace \o r.tx, ResErr("Bus"))
                    ELSE Set(read_temp_oneshot_mode, alert, dev, "idle", 0, trace \o r.tx,
                             ResTemp(temp_celsius(r.val)))
    /\ UNCHANGED lastWait

(* Continuous mode *)

\* read_temp_raw reading Configuration in the place of Temperature
read_temp_raw_config(watched) ==
    /\ \E st \in ReadOutcomes, flags \in TempFlags :
          LET r == ReadReg(ConfigurationAddr, st, flags, 0)
          IN  /\ IF r.ok
                 THEN Set(mode, alert, dev, "idle", 0, trace \o r.tx, ResTemp(temp_celsius(r.val)))
                 ELSE Set(mode, alert, dev, "idle", 0, trace \o r.tx, ResErr("Bus"))
              /\ lastWait' = IF r.ok /\ watched # "none" THEN watched ELSE lastWait
    /\ UNCHANGED op

\* read_temp_raw, the last await of read_temp and wait_read_temp; watched is
\* the condition a wait_* that ends here has waited for ("none" for read_temp)
read_temp_raw(watched) ==
    /\ \E st \in ReadOutcomes, t \in TempRaws :
          LET r == ReadReg(TemperatureAddr, st, 0, t)
          IN  /\ IF r.ok
                 THEN Set(mode, alert, dev, "idle", 0, trace \o r.tx, ResTemp(temp_celsius(r.val)))
                 ELSE Set(mode, alert, dev, "idle", 0, trace \o r.tx, ResErr("Bus"))
              /\ lastWait' = IF r.ok /\ watched # "none" THEN watched ELSE lastWait
    /\ UNCHANGED op

\* Tmp117<ContinuousMode>::read_temp(&mut self), first await: the read of
\* Configuration.  retry is where a DataNotReady leads: "idle" (returned to the
\* caller) for read_temp, the poll loop of wait_read_temp otherwise.
read_temp_config(flagsets, tr, retry, ready) ==
    \E st \in ReadOutcomes, flags \in flagsets :
        LET r == ReadReg(ConfigurationAddr, st, flags, 0)
        IN  IF ~r.ok
            THEN Set(mode, alert, dev, "idle", 0, tr \o r.tx, ResErr("Bus"))
            ELSE IF ~data_ready(r.val)
            THEN Set(mode, alert, dev, retry, 0, tr \o r.tx,
                     IF retry = "idle" THEN ResErr("DataNotReady") ELSE NoResult)
            ELSE Set(mode, alert, dev, ready, 0, tr \o r.tx, NoResult)

read_temp ==
    \/ /\ pc = "idle"
       /\ mode = "Continuous"
       /\ op' = NewOp("read_temp", 0)
       /\ read_temp_config(TempFlags, <<>>, "idle", "rt_raw")
       /\ UNCHANGED lastWait
    \/ /\ pc = "rt_raw"
       /\ read_temp_raw("none")

\* history: a wait_* for condition watched begins; what an earlier wait_* for
\* the other condition watched is forgotten
Watching(last, watched) == IF last = watched THEN last ELSE "none"

\* `self.alert.as_ref().map(|v| Some(AlertPin::DataReady(v)))` and its twin in
\* wait_alert: the mapped Option is a temporary, self.alert is not assigned
role_after_wait(role, watched) == role

\* second half of the edit of a wait_*, then on to the wait for the line
EditWriteThen(new_val, nextpc) ==
    \E ok \in BOOLEAN :
        LET w == WriteReg(ConfigurationAddr, new_val, ok, 0)
        IN  IF w.ok
            THEN Set(mode, alert, w.dev, nextpc, 0, trace \o w.tx, NoResult)
            ELSE Set(mode, alert, w.dev, "idle", 0, trace \o w.tx, ResErr("Bus"))

\* `p.borrow_mut().wait_for_high().await.map_err(|_| Error::AlertPin)?` and
\* the statement after it
wait_for_high(watched, nextpc) ==
    \E ok \in BOOLEAN :
        IF ok
        THEN Set(mode, role_after_wait(alert, watched), dev, nextpc, 0, trace, NoResult)
        ELSE Set(mode, alert, dev, "idle", 0, trace, ResErr("AlertPin"))

\* the status flags answered to a poll of wait_read_temp that has no line
WaitTempFlags(tr) ==
    {Ready, Ready + LowAlert} \cup (IF Len(tr) < 2 * MaxNotReady THEN {0} ELSE {})

wait_read_temp ==
    \/ /\ pc = "idle"
       /\ mode = "Continuous"
       /\ alert # "NoPin"
       /\ IF alert = "DataReady"
          THEN /\ op' = NewOp("wait_read_temp", 0)
               /\ Set(mode, alert, dev, "wr_pin", 0, <<>>, NoResult)
          ELSE EditRead("wait_read_temp", 0, "wr_edit", mode)
       /\ lastWait' = Watching(lastWait, "DataReady")
    \/ /\ pc = "wr_edit"
       /\ EditWriteThen(wait_read_temp_f(local), "wr_pin")
       /\ UNCHANGED <<op, lastWait>>
    \/ /\ pc = "wr_pin"
       /\ wait_for_high("DataReady", "wr_raw")
       /\ UNCHANGED <<op, lastWait>>
    \/ /\ pc = "wr_raw"
       /\ read_temp_raw("DataReady")
    \/ /\ pc = "idle"
       /\ mode = "Continuous"
       /\ alert = "NoPin"
       /\ op' = NewOp("wait_read_temp", 0)
       /\ read_temp_config(WaitTempFlags(<<>>), <<>>, "wr_poll", "wr_raw")
       /\ UNCHANGED lastWait
    \/ /\ pc = "wr_poll"
       /\ read_temp_config(WaitTempFlags(trace), trace, "wr_poll", "wr_raw")
       /\ UNCHANGED <<op, lastWait>>

\* the classification with the test for both flags left out
classify_single(config) ==
    IF high_alert(config) THEN "High"
    ELSE IF low_alert(config) THEN "Low"
    ELSE "None"

\* check_alert's classification of a Configuration value
classify(config) ==
    IF high_alert(config) /\ low_alert(config) THEN "HighLow"
    ELSE IF high_alert(config) THEN "High"
    ELSE IF low_alert(config) THEN "Low"
    ELSE "None"

\* the status flags answered to a check_alert; with quiet FALSE an alert is set
AlertFlags(quiet) ==
    {LowAlert, HighAlert, LowAlert + HighAlert + Ready} \cup (IF quiet THEN {0, Busy} ELSE {})

\* check_alert: one read of Configuration.  retry is where Alert::None leads:
\* "idle" for check_alert itself, the poll loop of a wait_alert without line.
check_alert_read(flagsets, tr, retry, watched) ==
    \E st \in ReadOutcomes, flags \in flagsets :
        LET r == ReadReg(ConfigurationAddr, st, flags, 0)
        IN  IF ~r.ok
            THEN Set(mode, alert, dev, "idle", 0, tr \o r.tx, ResErr("Bus")) /\ UNCHANGED lastWait
            ELSE IF classify(r.val) = "None" /\ retry # "idle"
            THEN Set(mode, alert, dev, retry, 0, tr \o r.tx, NoResult) /\ UNCHANGED lastWait
            ELSE /\ Set(mode, alert, dev, "idle", 0, tr \o r.tx, ResAlert(classify(r.val)))
                 /\ lastWait' = IF watched # "none" THEN watched ELSE lastWait

check_alert ==
    /\ pc = "idle"
    /\ mode = "Continuous"
    /\ op' = NewOp("check_alert", 0)
    /\ check_alert_read(AlertFlags(TRUE), <<>>, "idle", "none")

wait_alert ==
    \/ /\ pc = "idle"
       /\ mode = "Continuous"
       /\ alert # "NoPin"
       /\ IF alert = "Alert"
          THEN /\ op' = NewOp("wait_alert", 0)
               /\ Set(mode, alert, dev, "wa_pin", 0, <<>>, NoResult)
          ELSE EditRead("wait_alert", 0, "wa_edit", mode)
       /\ lastWait' = Watching(lastWait, "Alert")
    \/ /\ pc = "wa_edit"
       /\ EditWriteThen(wait_alert_f(local), "wa_pin")
       /\ UNCHANGED <<op, lastWait>>
    \/ /\ pc = "wa_pin"
       /\ wait_for_high("Alert", "wa_check")
       /\ UNCHANGED <<op, lastWait>>
    \/ /\ pc = "wa_check"
       /\ check_alert_read(AlertFlags(TRUE), trace, "idle", "Alert")
       /\ UNCHANGED op
    \/ /\ pc = "idle"
       /\ mode = "Continuous"
       /\ alert = "NoPin"
       /\ op' = NewOp("wait_alert", 0)
       /\ check_alert_read(AlertFlags(TRUE), <<>>, "wa_poll", "Alert")
    \/ /\ pc = "wa_poll"
       /\ check_alert_read(AlertFlags(Len(trace) < 2 * MaxQuiet), trace, "wa_poll", "Alert")
       /\ UNCHANGED op

(* The bus shared with another master *)

\* the Configuration words another master leaves in the device: the mode
\* field set to the pattern without variant, or the trigger mode flipped
ExternalWords(cfg) ==
    { with_mode(cfg, ConversionMode_Reserved), WithField(cfg, 4, 1, 1 - trigger_mode(cfg)) }

\* another bus master writes Configuration, between any two transactions of
\* the driver
external_write ==
    /\ \E w \in ExternalWords(dev.cfg) :
          /\ Writable(w) # dev.cfg
          /\ dev' = [dev EXCEPT !.cfg = Writable(w)]
          /\ op' = IF pc = "idle" THEN op ELSE [op EXCEPT !.ext = Writable(w)]
    /\ UNCHANGED <<mode, alert, pc, local, trace, result, lastWait>>

(* Cancellation: the caller drops the future of the running operation *)

\* the operations that take the handle by value: their future owns it
ConsumingNames == {"to_continuous", "to_oneshot", "to_shutdown", "reset", "read_temp_oneshot"}

\* the awaits that are the write of an edit or a plain register write
WritePcs == {"tc_edit", "tc_high", "tc_low", "tc_offset", "to_edit", "ts_edit", "rs_edit",
             "wr_edit", "wa_edit"}

\* the register the write awaited at p goes to
PendingAddr(p) ==
    IF p = "tc_high" THEN HighLimitAddr
    ELSE IF p = "tc_low" THEN LowLimitAddr
    ELSE IF p = "tc_offset" THEN TemperatureOffsetAddr
    ELSE ConfigurationAddr

\* the word of the write awaited at p
PendingWord(p) ==
    IF p = "tc_edit" THEN to_continuous_f(local, op.arg)
    ELSE IF p = "tc_high" THEN f32_div_as_u16(op.arg.high.v)
    ELSE IF p = "tc_low" THEN f32_div_as_u16(op.arg.low.v)
    ELSE IF p = "tc_offset" THEN f32_div_as_u16(op.arg.offset.v)
    ELSE IF p = "to_edit" THEN to_oneshot_f(local, op.arg)
    ELSE IF p = "ts_edit" THEN to_shutdown_f(local)
    ELSE IF p = "rs_edit" THEN reset_f(local)
    ELSE IF p = "wr_edit" THEN wait_read_temp_f(local)
    ELSE wait_alert_f(local)

\* the future is dropped at the await it is suspended at.  Nothing more is
\* issued; a write that was already on the bus (write_internal hands the
\* address and both bytes to one i2c write) has reached the device whole or
\* not at all.  A handle that the future owns is dropped with it.
cancel ==
    /\ pc # "idle"
    /\ \E landed \in BOOLEAN :
          IF landed /\ pc \in WritePcs
          THEN \E cfg0 \in ResetConfigs(PendingAddr(pc), PendingWord(pc)) :
                  LET w == WriteReg(PendingAddr(pc), PendingWord(pc), TRUE, cfg0)
                  IN  Set(IF op.name \in ConsumingNames THEN Dropped ELSE mode, alert, w.dev,
                          "idle", 0, trace \o w.tx, ResErr("Cancelled"))
          ELSE /\ ~landed
               /\ Set(IF op.name \in ConsumingNames THEN Dropped ELSE mode, alert, dev,
                      "idle", 0, trace, ResErr("Cancelled"))
    /\ UNCHANGED <<op, lastWait>>

----------------------------------------------------------------------------
(* Specifications.  Spec lets the application call every operation.  The   *)
(* others keep it to one family of operations, with the same actions.      *)

Next ==
    \/ new
    \/ to_continuous
    \/ to_oneshot
    \/ to_shutdown
    \/ reset
    \/ write_eeprom
    \/ read_eeprom
    \/ read_temp_oneshot
    \/ read_temp
    \/ wait_read_temp
    \/ check_alert
    \/ wait_alert

Spec == Init /\ [][Next]_vars

\* the mode machine: the transitions and the OneShot read
NextMode == new \/ to_continuous \/ to_oneshot \/ to_shutdown \/ reset \/ read_temp_oneshot

SpecMode == Init /\ [][NextMode]_vars

DefaultConfig ==
    [average |-> None, conversion |-> None, high |-> None, low |-> None, offset |-> None]

\* the scratch cells, in every mode
NextEeprom ==
    \/ new
    \/ to_continuous_with({DefaultConfig})
    \/ to_oneshot
    \/ to_shutdown
    \/ write_eeprom
    \/ read_eeprom

SpecEeprom == Init /\ [][NextEeprom]_vars

\* a handle in Continuous mode
NextContinuous ==
    \/ new
    \/ to_continuous_with({DefaultConfig})
    \/ read_temp
    \/ wait_read_temp
    \/ check_alert
    \/ wait_alert

SpecContinuous == Init /\ [][NextContinuous]_vars

\* a configuration with the three limits given, as values that are written as
\* the words the device holds after power-up (6000h, 8000h, 0000h)
LimitsConfig ==
    [average |-> None, conversion |-> None,
     high |-> Some(Celsius(192)), low |-> Some(Celsius(256)), offset |-> Some(Celsius(0))]

\* every operation, to_continuous with every register write it can make
NextBus ==
    \/ new
    \/ to_continuous_with({LimitsConfig})
    \/ to_oneshot
    \/ to_shutdown
    \/ reset
    \/ write_eeprom_with({BlankEeprom})
    \/ read_eeprom
    \/ read_temp_oneshot
    \/ read_temp
    \/ wait_read_temp
    \/ check_alert
    \/ wait_alert

SpecBus == Init /\ [][NextBus]_vars

\* the operations that read Configuration, on a bus shared with another master
NextShared ==
    \/ new
    \/ to_continuous_with({DefaultConfig})
    \/ to_oneshot
    \/ to_shutdown
    \/ reset
    \/ read_temp
    \/ check_alert
    \/ external_write

SpecShared == Init /\ [][NextShared]_vars

\* the operations with an edit, and their cancellation
NextCancel ==
    \/ new
    \/ to_continuous
    \/ to_oneshot
    \/ to_shutdown
    \/ reset
    \/ wait_read_temp
    \/ wait_alert
    \/ cancel

SpecCancel == Init /\ [][NextCancel]_vars

\* write_eeprom against a device that may stay busy for any number of polls
write_eeprom_forever == write_eeprom_env({<<1, 2, 3>>}, TRUE)

\* a poll of wait_eeprom that reads eeprom_busy clear
poll_clear == write_eeprom_forever /\ pc' \in {"we_write1", "we_write2", "we_write3"}

NextBusy == write_eeprom_forever

\* the driver keeps polling (its loop has no other await), and the device
\* clears eeprom_busy at some poll
SpecBusy ==
    Init /\ [][NextBusy]_vars /\ WF_vars(write_eeprom_forever) /\ SF_vars(poll_clear)

\* the same without the device ever having to clear eeprom_busy
SpecBusyStuck == Init /\ [][NextBusy]_vars /\ WF_vars(write_eeprom_forever)

\* the operations that return a temperature
NextTemp ==
    \/ new
    \/ to_oneshot
    \/ to_continuous_with({DefaultConfig})
    \/ read_temp_oneshot
    \/ read_temp
    \/ wait_read_temp

SpecTemp == Init /\ [][NextTemp]_vars


----------------------------------------------------------------------------
(* Reading the bus trace *)

IsAddrWrite(e, a) == e.kind = "write" /\ e.bytes = <<a>>
IsRegWrite(e) == e.kind = "write" /\ Len(e.bytes) = 3
IsWriteTo(e, a) == IsRegWrite(e) /\ e.bytes[1] = a
WrittenWord(e) == from_be_bytes(SubSeq(e.bytes, 2, 3))
ReadWord(e) == from_be_bytes(e.bytes)

\* entries i, i + 1 of tr are a successful read of register a
IsReadOf(tr, i, a) ==
    /\ i + 1 <= Len(tr)
    /\ IsAddrWrite(tr[i], a) /\ tr[i].ok
    /\ tr[i + 1].kind = "read" /\ tr[i + 1].ok

WritesTo(tr, a) == {i \in DOMAIN tr : IsWriteTo(tr[i], a)}

Done(name) == pc = "idle" /\ op.name = name

TransitionNames == {"to_continuous", "to_oneshot", "to_shutdown", "reset"}

----------------------------------------------------------------------------
(* Claims *)

\* C1: with an alert line, a successful wait_read_temp that follows a
\* successful wait_read_temp (no wait_alert in between) writes Configuration
\* not at all: only the first of them reconfigures the line.
C1_OnlyFirstWaitReconfigures ==
    (Done("wait_read_temp") /\ result.st = "Ok" /\ alert # "NoPin" /\ op.prevWait = "DataReady")
        => WritesTo(trace, ConfigurationAddr) = {}

\* C2: with an alert line, after a successful wait_read_temp the role of the
\* line is DataReady (WatchingDataReady) and after a successful wait_alert it
\* is Alert (WatchingAlert).
C2_RoleFollowsWait ==
    (pc = "idle" /\ result.st = "Ok" /\ alert # "NoPin")
        => /\ op.name = "wait_read_temp" => alert = "DataReady"
           /\ op.name = "wait_alert" => alert = "Alert"

\* C3: a transition that ends in a bus error leaves the caller with a handle
\* in the mode it had before the call.
C3_FailedTransitionKeepsMode ==
    (pc = "idle" /\ op.name \in TransitionNames /\ result.st = "Bus") => mode = op.mode0

\* C4: a OneShot read_temp that finds data_ready clear returns DataNotReady,
\* has read no Temperature, and leaves the handle in OneShot mode.
C4_NotReadyKeepsOneShot ==
    (Done("read_temp_oneshot") /\ result.st = "DataNotReady")
        => /\ \A i \in DOMAIN trace : ~IsAddrWrite(trace[i], TemperatureAddr)
           /\ mode = "OneShot"

\* the i2c transactions of the step being taken
StepTx == IF pc = "idle" THEN trace' ELSE SubSeq(trace', Len(trace) + 1, Len(trace'))

\* C5, the result: a OneShot read_temp that returns a temperature has read
\* Configuration with data_ready set, then Temperature, has written nothing,
\* returns the Temperature word decoded as a signed count of LSBs, and the one
\* handle there is is tagged Shutdown.
C5_ReadResult ==
    (Done("read_temp_oneshot") /\ result.st = "Ok")
        => /\ Len(trace) = 4
           /\ IsReadOf(trace, 1, ConfigurationAddr)
           /\ data_ready(ReadWord(trace[2]))
           /\ IsReadOf(trace, 3, TemperatureAddr)
           /\ result.temp = AsI16(ReadWord(trace[4])) * CELCIUS_CONVERSION
           /\ mode = "Shutdown"

\* C5, the handle: while the handle is tagged Shutdown no step reads the
\* Temperature register.
C5_NoReadInShutdown ==
    mode = "Shutdown" => \A i \in DOMAIN StepTx : ~IsAddrWrite(StepTx[i], TemperatureAddr)

\* C5: read_temp on a OneShot handle with data ready returns the decoded
\* Temperature and a Shutdown handle without writing Configuration, and no
\* temperature is read through a Shutdown handle.
C5_ReadyGivesShutdown == []C5_ReadResult /\ [][C5_NoReadInShutdown]_vars

C5_Witness == Done("read_temp_oneshot") /\ result.st = "Ok" /\ result.temp < 0

\* C6: in the end-to-end run (to_oneshot succeeded, no bus fault) a poll that
\* returns DataNotReady leaves the handle available for the next poll:
\* read_temp can be called again.
C6_PollAgainAfterNotReady ==
    (Done("read_temp_oneshot") /\ op.mode0 = "OneShot" /\ result.st = "DataNotReady")
        => ENABLED read_temp_oneshot

\* tr from entry i on is, for each cell of cells in turn: Configuration polls
\* that read busy, one poll that reads busy clear, the write of the cell's value
RECURSIVE EepromTrace(_, _, _, _)
EepromTrace(tr, i, cells, values) ==
    IF cells = <<>> THEN i = Len(tr) + 1
    ELSE /\ IsReadOf(tr, i, ConfigurationAddr)
         /\ IF eeprom_busy(ReadWord(tr[i + 1]))
            THEN EepromTrace(tr, i + 2, cells, values)
            ELSE /\ i + 2 <= Len(tr)
                 /\ tr[i + 2] = I2cWrite(<<Head(cells)>> \o to_be_bytes(Head(values)), TRUE)
                 /\ EepromTrace(tr, i + 3, Tail(cells), Tail(values))

\* the number of polls of tr that read busy
BusyPolls(tr) ==
    Cardinality({i \in DOMAIN tr : IsReadOf(tr, i, ConfigurationAddr)
                                   /\ eeprom_busy(ReadWord(tr[i + 1]))})

\* C7: a write_eeprom([a, b, c]) that succeeds has this bus trace and no
\* other: the polls the device answers busy, the poll it answers clear and the
\* write of a to 0x05, then the same for b and 0x06, then for c and 0x07.
C7_EepromTraceInOrder ==
    (Done("write_eeprom") /\ result.st = "Ok")
        => EepromTrace(trace, 1, <<UEEPROM1Addr, UEEPROM2Addr, UEEPROM3Addr>>, op.arg)

C7_Witness ==
    /\ Done("write_eeprom") /\ result.st = "Ok"
    /\ BusyPolls(trace) = 3
    /\ \A i \in {1, 6, 11} : eeprom_busy(ReadWord(trace[i + 1]))

\* C8: every scratch cell write of write_eeprom comes right after a
\* Configuration read that returned eeprom_busy clear.
C8_WriteOnlyWhenClear ==
    op.name = "write_eeprom"
        => \A i \in DOMAIN trace :
              (IsRegWrite(trace[i]) /\ trace[i].bytes[1] \in {UEEPROM1Addr, UEEPROM2Addr, UEEPROM3Addr})
                  => /\ i >= 3
                     /\ IsReadOf(trace, i - 2, ConfigurationAddr)
                     /\ ~eeprom_busy(ReadWord(trace[i - 1]))

C8_Witness ==
    /\ op.name = "write_eeprom"
    /\ pc = "we_poll3"
    /\ BusyPolls(trace) >= 2
    /\ Cardinality({i \in DOMAIN trace : IsRegWrite(trace[i])}) = 2

\* the value of config that goes to register a
LimitOf(config, a) ==
    IF a = HighLimitAddr THEN config.high
    ELSE IF a = LowLimitAddr THEN config.low
    ELSE config.offset

LimitAddrs == {HighLimitAddr, LowLimitAddr, TemperatureOffsetAddr}

\* v is a multiple of 0.0078125 within -256 .. 255.9921875 degrees
Representable(v) ==
    /\ v % CELCIUS_CONVERSION = 0
    /\ v >= Celsius(-256)
    /\ v < Celsius(256)

\* C9: the word to_continuous writes to HighLimit, LowLimit or
\* TemperatureOffset is the two's complement encoding of value / 0.0078125,
\* negative values included, and decodes back to the value.
C9_LimitsTwosComplement ==
    op.name = "to_continuous"
        => \A i \in DOMAIN trace : \A a \in LimitAddrs :
              (IsWriteTo(trace[i], a) /\ trace[i].ok /\ Representable(LimitOf(op.arg, a).v))
                  => /\ WrittenWord(trace[i])
                          = TwosComplement16(LimitOf(op.arg, a).v \div CELCIUS_CONVERSION)
                     /\ AsI16(WrittenWord(trace[i])) * CELCIUS_CONVERSION = LimitOf(op.arg, a).v

\* C10: to_continuous writes no limit register whose value config leaves out,
\* and the Configuration it writes carries the average and the conversion
\* cycle as read when config leaves them out.
C10_AbsentFieldsUntouched ==
    op.name = "to_continuous"
        => /\ \A a \in LimitAddrs : ~LimitOf(op.arg, a).some => WritesTo(trace, a) = {}
           /\ \A i \in WritesTo(trace, ConfigurationAddr) :
                 /\ i = 3
                 /\ IsReadOf(trace, 1, ConfigurationAddr)
                 /\ ~op.arg.average.some
                       => average(WrittenWord(trace[3])) = average(ReadWord(trace[2]))
                 /\ ~op.arg.conversion.some
                       => conversion(WrittenWord(trace[3])) = conversion(ReadWord(trace[2]))

C10_Witness ==
    /\ Done("to_continuous") /\ result.st = "Ok"
    /\ ~op.arg.average.some /\ ~op.arg.conversion.some
    /\ ~op.arg.high.some /\ ~op.arg.low.some /\ op.arg.offset.some
    /\ average(ReadWord(trace[2])) # Average_NoAverage
    /\ conversion(ReadWord(trace[2])) # 0

\* C11: a read_eeprom that succeeds right after a write_eeprom(V) that
\* succeeded (so no bus fault, busy cleared, nothing else written in between)
\* returns V, cell for cell.
C11_EepromRoundTrip ==
    (Done("read_eeprom") /\ result.st = "Ok" /\ op.written # <<>>)
        => /\ Len(result.ee) = 3
           /\ \A i \in 1 .. 3 : result.ee[i] = op.written[i]

C11_Witness ==
    /\ Done("read_eeprom") /\ result.st = "Ok"
    /\ op.written = <<U16 - 1, 0, 1>>
    /\ result.ee = <<U16 - 1, 0, 1>>

\* the two's complement reading of a 16-bit word
Signed16(raw) == IF raw < Pow2(15) THEN raw ELSE raw - Pow2(16)

\* the fixed point of Celsius values: units per degree
UnitsPerDegree == Pow2(8)

TempReads == {"read_temp_oneshot", "read_temp", "wait_read_temp"}

\* the Temperature word read by the last transaction of the trace
LastRaw == ReadWord(trace[Len(trace)])

\* C12: the temperature returned by OneShot read_temp, Continuous read_temp
\* and wait_read_temp is the Temperature word just read, taken as a signed
\* 16-bit count of 1/128 degree: 0x0000 is 0, 0x8000 is -256 degrees, 0x7FFF
\* is 32767/128 degrees.
C12_TemperatureDecode ==
    (pc = "idle" /\ op.name \in TempReads /\ result.st = "Ok")
        => /\ Len(trace) >= 2
           /\ IsReadOf(trace, Len(trace) - 1, TemperatureAddr)
           /\ result.temp * 128 = Signed16(LastRaw) * UnitsPerDegree
           /\ LastRaw = 0 => result.temp = 0
           /\ LastRaw = Pow2(15) => result.temp = (-256) * UnitsPerDegree
           /\ LastRaw = Pow2(15) - 1 => result.temp * 128 = 32767 * UnitsPerDegree

C12_Witness ==
    /\ Done("wait_read_temp") /\ result.st = "Ok"
    /\ LastRaw = Pow2(15)
    /\ result.temp = (-256) * UnitsPerDegree

\* bit n of word w is set
Bit(w, n) == (w \div Pow2(n)) % 2 = 1

\* C13: a check_alert that succeeds has issued one read, of Configuration,
\* and returns HighLow when bits 15 (high) and 14 (low) of the word are both
\* set, High when only bit 15 is, Low when only bit 14 is, None when neither.
C13_AlertClassification ==
    (Done("check_alert") /\ result.st = "Ok")
        => /\ Len(trace) = 2
           /\ IsReadOf(trace, 1, ConfigurationAddr)
           /\ LET w == ReadWord(trace[2])
              IN  /\ (Bit(w, 15) /\ Bit(w, 14)) => result.alert = "HighLow"
                  /\ (Bit(w, 15) /\ ~Bit(w, 14)) => result.alert = "High"
                  /\ (~Bit(w, 15) /\ Bit(w, 14)) => result.alert = "Low"
                  /\ (~Bit(w, 15) /\ ~Bit(w, 14)) => result.alert = "None"

C13_Witness ==
    /\ Done("check_alert") /\ result.st = "Ok"
    /\ Bit(ReadWord(trace[2]), 15) /\ Bit(ReadWord(trace[2]), 14)
    /\ result.alert = "HighLow"

\* the first entry of tr, from entry i on, that does not begin a Configuration
\* read answered with data_ready (bit 13) clear
RECURSIVE SkipNotReady(_, _)
SkipNotReady(tr, i) ==
    IF IsReadOf(tr, i, ConfigurationAddr) /\ ~Bit(ReadWord(tr[i + 1]), 13)
    THEN SkipNotReady(tr, i + 2)
    ELSE i

\* entries i .. Len(tr) of tr are one register read that failed
IsFailedRead(tr, i) ==
    /\ i <= Len(tr)
    /\ tr[i].kind = "write" /\ Len(tr[i].bytes) = 1
    /\ \/ Len(tr) = i /\ ~tr[i].ok
       \/ Len(tr) = i + 1 /\ tr[i].ok /\ tr[i + 1].kind = "read" /\ ~tr[i + 1].ok

\* C14: a wait_read_temp on a handle without alert line never waits for a
\* line and never writes a register.  Its bus trace is Configuration reads
\* answered not ready, then either a read that fails (returned as a bus
\* error), or a Configuration read answered ready and the read of
\* Temperature (returned as the temperature, or as a bus error when it
\* fails); it never returns DataNotReady.
C14_NoLineOnlyReads ==
    (op.name = "wait_read_temp" /\ alert = "NoPin")
        => LET j == SkipNotReady(trace, 1)
           IN  /\ pc \in {"idle", "wr_poll", "wr_raw"}
               /\ \A i \in DOMAIN trace : ~IsRegWrite(trace[i])
               /\ pc = "wr_poll" => j = Len(trace) + 1
               /\ pc = "wr_raw"
                     => IsReadOf(trace, j, ConfigurationAddr) /\ Len(trace) = j + 1
               /\ pc = "idle"
                     => /\ result.st \in {"Ok", "Bus"}
                        /\ result.st = "Ok"
                              => /\ IsReadOf(trace, j, ConfigurationAddr)
                                 /\ IsReadOf(trace, j + 2, TemperatureAddr)
                                 /\ Len(trace) = j + 3
                                 /\ result.temp * 128 = Signed16(LastRaw) * UnitsPerDegree
                        /\ result.st = "Bus"
                              => \/ IsFailedRead(trace, j) /\ trace[j].bytes = <<ConfigurationAddr>>
                                 \/ /\ IsReadOf(trace, j, ConfigurationAddr)
                                    /\ IsFailedRead(trace, j + 2)
                                    /\ trace[j + 2].bytes = <<TemperatureAddr>>

C14_Witness ==
    /\ Done("wait_read_temp") /\ alert = "NoPin" /\ result.st = "Ok"
    /\ SkipNotReady(trace, 1) >= 5

\* C15: in every operation a bus transaction that fails is the last one the
\* operation issues, and the operation has returned with a bus error.
C15_NoRetryAfterBusError ==
    \A i \in DOMAIN trace :
        ~trace[i].ok => /\ i = Len(trace)
                        /\ pc = "idle"
                        /\ result.st = "Bus"

C15_Witness ==
    /\ Done("write_eeprom") /\ result.st = "Bus"
    /\ Len(trace) >= 8
    /\ BusyPolls(trace) >= 1
    /\ trace[Len(trace)].kind = "read" /\ ~trace[Len(trace)].ok

\* C16: a read of Configuration answered with the mode field at the pattern
\* 0b10, which no mode is encoded as, ends the operation that issued it with
\* InvalidRegisterData.
C16_ReservedModeRejected ==
    \A i \in DOMAIN trace :
        (IsReadOf(trace, i, ConfigurationAddr) /\ Field(ReadWord(trace[i + 1]), 10, 2) = 2)
            => /\ i + 1 = Len(trace)
               /\ pc = "idle"
               /\ result.st = "InvalidRegisterData"

HandleModes == {"Unknown", "OneShot", "Continuous", "Shutdown"}

\* the mode a successful transition tags the handle with
TagOf(name) ==
    IF name = "to_oneshot" THEN "OneShot"
    ELSE IF name = "to_continuous" THEN "Continuous"
    ELSE IF name = "to_shutdown" THEN "Shutdown"
    ELSE "Unknown"

\* the mode field (bits 10 and 11 of Configuration) that stands for a tag
ModeBits(tag) ==
    IF tag = "OneShot" THEN 3 ELSE IF tag = "Shutdown" THEN 1 ELSE 0

\* the last entry of tr that is a write to Configuration, 0 when there is none
LastConfigWrite(tr) ==
    LET ws == WritesTo(tr, ConfigurationAddr)
    IN  IF ws = {} THEN 0 ELSE CHOOSE i \in ws : \A j \in ws : j <= i

\* C17: a handle in any mode can start each of to_oneshot, to_continuous,
\* to_shutdown and reset; one that succeeds leaves the handle tagged OneShot,
\* Continuous, Shutdown, Unknown; and the mode field of the last word a
\* successful to_oneshot, to_continuous or to_shutdown wrote to Configuration
\* is the one of that tag.
C17_NoForbiddenTransition ==
    /\ (pc = "idle" /\ mode \in HandleModes)
          => /\ ENABLED to_oneshot
             /\ ENABLED to_continuous
             /\ ENABLED to_shutdown
             /\ ENABLED reset
    /\ (pc = "idle" /\ op.name \in TransitionNames /\ result.st = "Ok")
          => /\ mode = TagOf(op.name)
             /\ op.name # "reset"
                   => /\ LastConfigWrite(trace) # 0
                      /\ trace[LastConfigWrite(trace)].ok
                      /\ Field(WrittenWord(trace[LastConfigWrite(trace)]), 10, 2) = ModeBits(mode)

C17_Witness ==
    /\ Done("to_oneshot") /\ result.st = "Ok"
    /\ op.mode0 = "Shutdown"
    /\ mode = "OneShot"
    /\ Field(WrittenWord(trace[3]), 10, 2) = 3

EepromNames == {"read_eeprom", "write_eeprom"}

\* C18: a handle in any mode can start read_eeprom and write_eeprom; neither
\* changes the mode of the handle nor writes Configuration; read_eeprom never
\* reads Configuration, and one that succeeds has issued three reads and
\* nothing else: of 0x05, of 0x06, of 0x07.
C18_EepromInEveryMode ==
    /\ (pc = "idle" /\ mode \in HandleModes) => ENABLED read_eeprom /\ ENABLED write_eeprom
    /\ op.name \in EepromNames
          => /\ mode = op.mode0
             /\ WritesTo(trace, ConfigurationAddr) = {}
    /\ op.name = "read_eeprom"
          => /\ \A i \in DOMAIN trace : ~IsAddrWrite(trace[i], ConfigurationAddr)
             /\ \A i \in DOMAIN trace : ~IsRegWrite(trace[i])
             /\ Len(trace) <= 6
    /\ (Done("read_eeprom") /\ result.st = "Ok")
          => /\ Len(trace) = 6
             /\ IsReadOf(trace, 1, 5)
             /\ IsReadOf(trace, 3, 6)
             /\ IsReadOf(trace, 5, 7)

C18_Witness ==
    /\ Done("read_eeprom") /\ result.st = "Ok"
    /\ mode = "OneShot"
    /\ result.ee = <<1, 2, 3>>

\* C19 as stated: a wait_read_temp on a handle with alert line that returns a
\* temperature has, after the wait for the line (so after the write of its
\* edit), read Configuration with data_ready set and then Temperature.
C19_LineThenOrdinaryRead ==
    (Done("wait_read_temp") /\ alert # "NoPin" /\ result.st = "Ok")
        => /\ Len(trace) >= 4
           /\ IsReadOf(trace, Len(trace) - 3, ConfigurationAddr)
           /\ Bit(ReadWord(trace[Len(trace) - 2]), 13)
           /\ IsReadOf(trace, Len(trace) - 1, TemperatureAddr)

\* C19: a wait_read_temp on a handle with alert line issues, after the wait
\* for the line (so after the write of its edit), one read, of Temperature,
\* and no read of Configuration: it returns the decoded temperature or the
\* bus error of that read, never DataNotReady.
C19_LineThenRawRead ==
    (op.name = "wait_read_temp" /\ alert # "NoPin")
        => LET k == LastConfigWrite(trace)
           IN  /\ result.st # "DataNotReady"
               /\ \A i \in DOMAIN trace :
                     (i > k /\ k # 0) => /\ pc = "idle"
                                         /\ trace[i].kind = "write" => trace[i].bytes = <<TemperatureAddr>>
                                         /\ i <= k + 2
               /\ (pc = "idle" /\ result.st = "Ok")
                     => /\ k # 0
                        /\ Len(trace) = k + 2
                        /\ IsReadOf(trace, k + 1, TemperatureAddr)
                        /\ result.temp * 128 = Signed16(LastRaw) * UnitsPerDegree

C19_Witness ==
    /\ Done("wait_read_temp") /\ alert # "NoPin" /\ result.st = "Ok"
    /\ LastConfigWrite(trace) = 3
    /\ Len(trace) = 5
    /\ result.temp < 0

\* the closure the transition o hands to edit, applied to w
Transform(o, w) ==
    IF o.name = "to_continuous" THEN to_continuous_f(w, o.arg)
    ELSE IF o.name = "to_oneshot" THEN to_oneshot_f(w, o.arg)
    ELSE IF o.name = "to_shutdown" THEN to_shutdown_f(w)
    ELSE reset_f(w)

\* C20, the bus: the edit of a transition is one read of Configuration, then
\* at most one write, to Configuration, of the closure applied to the word
\* read (bit 4, which no closure sets, as read); nothing is read again or
\* sent again, and the transition returns Ok as soon as that write is
\* acknowledged, whatever another master wrote in between.
C20_EditTrace ==
    op.name \in TransitionNames
        => /\ Len(trace) <= 3
           /\ Len(trace) = 3
                 => /\ IsReadOf(trace, 1, ConfigurationAddr)
                    /\ IsWriteTo(trace[3], ConfigurationAddr)
                    /\ WrittenWord(trace[3]) = Transform(op, ReadWord(trace[2]))
                    /\ Bit(WrittenWord(trace[3]), 4) = Bit(ReadWord(trace[2]), 4)
                    /\ pc = "idle"
                    /\ trace[3].ok <=> result.st = "Ok"
           /\ (pc = "idle" /\ result.st = "Ok") => Len(trace) = 3

\* C20, the device: the acknowledged write of an edit leaves the writable
\* fields of Configuration as the word written has them, whatever the device
\* held just before (reset apart, which brings the power-up values back).
C20_Overwrite ==
    (op.name \in TransitionNames /\ op.name # "reset" /\ pc # "idle"
     /\ pc' = "idle" /\ result'.st = "Ok")
        => /\ dev'.cfg = Field(WrittenWord(trace'[3]), 1, 11) * 2
           /\ Bit(dev'.cfg, 4) = Bit(ReadWord(trace[2]), 4)

\* C20: edit is one read and one write of the closure applied to the word
\* read, with no second read and no retry; what another bus master wrote to
\* the register between the two is overwritten in every field the closure
\* does not set, and the edit succeeds.
C20_EditLostUpdate == []C20_EditTrace /\ [][C20_Overwrite]_vars

C20_Witness ==
    /\ Done("to_shutdown") /\ result.st = "Ok"
    /\ op.ext # NoExternal
    /\ Bit(op.ext, 4) # Bit(ReadWord(trace[2]), 4)
    /\ Bit(WrittenWord(trace[3]), 4) = Bit(ReadWord(trace[2]), 4)

EditNames == {"to_continuous", "to_oneshot", "to_shutdown", "wait_read_temp", "wait_alert"}

\* word w with the fields the edit of operation o names set as o asks
Edited(o, w) ==
    IF o.name = "to_shutdown" THEN WithField(w, 10, 2, 1)
    ELSE IF o.name = "to_oneshot" THEN WithField(WithField(w, 10, 2, 3), 5, 2, o.arg)
    ELSE IF o.name = "wait_read_temp" THEN WithField(WithField(w, 2, 1, 1), 3, 1, 1)
    ELSE IF o.name = "wait_alert" THEN WithField(WithField(w, 2, 1, 0), 3, 1, 1)
    ELSE LET w1 == WithField(w, 10, 2, 0)
             w2 == IF o.arg.average.some THEN WithField(w1, 5, 2, o.arg.average.v) ELSE w1
         IN  IF o.arg.conversion.some THEN WithField(w2, 7, 3, o.arg.conversion.v) ELSE w2

\* bits 1 .. 11 of a Configuration word, the ones the device stores
Stored(w) == Field(w, 1, 11) * 2

\* C21: from the read of an edit on, through every await of the operation
\* and after its cancellation at any of them, the device holds in
\* Configuration either what it held at the read (as long as no write of the
\* edit has reached it) or the word read with every field of the edit set
\* (once the write has reached it), never some of the fields only.
C21_EditNeverHalfApplied ==
    (op.name \in EditNames /\ IsReadOf(trace, 1, ConfigurationAddr))
        => LET before == Stored(ReadWord(trace[2]))
               after == Stored(Edited(op, ReadWord(trace[2])))
               landed == \E i \in WritesTo(trace, ConfigurationAddr) : trace[i].ok
           IN  /\ dev.cfg \in {before, after}
               /\ ~landed => dev.cfg = before
               /\ landed => dev.cfg = after

C21_Witness ==
    /\ pc = "idle" /\ op.name = "to_oneshot" /\ result.st = "Cancelled"
    /\ Len(trace) = 2
    /\ IsReadOf(trace, 1, ConfigurationAddr)
    /\ dev.cfg = Stored(ReadWord(trace[2]))
    /\ dev.cfg # Stored(Edited(op, ReadWord(trace[2])))

\* the polls of tr that read eeprom_busy (bit 12) clear
ClearPolls(tr) ==
    {i \in DOMAIN tr : IsReadOf(tr, i, ConfigurationAddr) /\ ~Bit(ReadWord(tr[i + 1]), 12)}

\* the acknowledged writes of tr to a scratch cell
CellWrites(tr) ==
    {i \in DOMAIN tr : IsRegWrite(tr[i]) /\ tr[i].ok /\ tr[i].bytes[1] \in {5, 6, 7}}

FaultFree(tr) == \A i \in DOMAIN tr : tr[i].ok

\* C22, what holds at every moment of a write_eeprom: no cell is written
\* before a poll has read busy clear for it; while no poll has read clear on
\* a fault-free bus the call has not returned and has written nothing; a
\* call returns on a fault-free bus only with the three cells written, each
\* after its own clear poll.
C22_OnlyAfterClear ==
    op.name = "write_eeprom"
        => /\ Cardinality(CellWrites(trace)) <= Cardinality(ClearPolls(trace))
           /\ (FaultFree(trace) /\ ClearPolls(trace) = {})
                 => pc = "we_poll1" /\ \A i \in DOMAIN trace : ~IsRegWrite(trace[i])
           /\ (FaultFree(trace) /\ pc = "idle")
                 => /\ result.st = "Ok"
                    /\ Cardinality(CellWrites(trace)) = 3
                    /\ Cardinality(ClearPolls(trace)) = 3

C22_Started == op.name = "write_eeprom" /\ pc # "idle"

C22_Returned == op.name = "write_eeprom" /\ pc = "idle"

\* C22: write_eeprom has no bound on its polls.  It writes a cell only after
\* a poll that read busy clear and stays in its first wait, without a write,
\* as long as every poll reads busy; when the device clears busy at some
\* poll for each cell, the call returns, on a fault-free bus with the three
\* cells written.
C22_BusyWaitUnbounded == []C22_OnlyAfterClear /\ (C22_Started ~> C22_Returned)

\* a poll beyond the MaxBusy polls of the trace has read busy, and the call
\* is still in its first wait with nothing written
C22_Witness ==
    /\ op.name = "write_eeprom" /\ pc = "we_poll1"
    /\ FaultFree(trace) /\ ClearPolls(trace) = {}
    /\ TrailingBusy(trace) = MaxBusy
    /\ local # ReadWord(trace[Len(trace)])

\* the bits of Configuration the edit of the operation named name may change
EditMask(name) ==
    IF name = "to_shutdown" THEN {10, 11}
    ELSE IF name = "to_oneshot" THEN {5, 6, 10, 11}
    ELSE IF name = "reset" THEN {1}
    ELSE {2, 3}

MaskedNames == {"to_shutdown", "to_oneshot", "reset", "wait_read_temp", "wait_alert"}

\* C23: the word an edit of to_shutdown, to_oneshot, reset, wait_read_temp
\* or wait_alert writes to Configuration has the named fields as asked (mode
\* Shutdown; mode OneShot and the average; the reset bit; the pin select and
\* active-high polarity) and every other bit, status and reserved bits
\* included, as in the word the edit read.
C23_EditsOnlyNamedFields ==
    op.name \in MaskedNames
        => \A i \in WritesTo(trace, ConfigurationAddr) :
              LET r == ReadWord(trace[2])
                  w == WrittenWord(trace[i])
              IN  /\ i = 3
                  /\ IsReadOf(trace, 1, ConfigurationAddr)
                  /\ \A b \in 0 .. 15 : b \notin EditMask(op.name) => Bit(w, b) = Bit(r, b)
                  /\ op.name = "to_shutdown" => Field(w, 10, 2) = 1
                  /\ op.name = "to_oneshot" => Field(w, 10, 2) = 3 /\ Field(w, 5, 2) = op.arg
                  /\ op.name = "reset" => Bit(w, 1)
                  /\ op.name = "wait_read_temp" => Bit(w, 2) /\ Bit(w, 3)
                  /\ op.name = "wait_alert" => ~Bit(w, 2) /\ Bit(w, 3)

C23_Witness ==
    /\ Done("to_oneshot") /\ result.st = "Ok"
    /\ Bit(ReadWord(trace[2]), 15) /\ Bit(ReadWord(trace[2]), 12)
    /\ Bit(ReadWord(trace[2]), 4)
    /\ Bit(WrittenWord(trace[3]), 15) /\ Bit(WrittenWord(trace[3]), 4)
    /\ WrittenWord(trace[3]) # ReadWord(trace[2])

\* the place of a register in the order of to_continuous
Rank(a) == IF a = 1 THEN 1 ELSE IF a = 2 THEN 2 ELSE IF a = 3 THEN 3 ELSE 4

RegWrites(tr) == {i \in DOMAIN tr : IsRegWrite(tr[i])}

\* what the device holds in register a
Held(d, a) == IF a = 1 THEN d.cfg ELSE IF a = 2 THEN d.high ELSE IF a = 3 THEN d.low ELSE d.off

\* the number of fields among high, low, offset that config gives
Given(config) ==
    Cardinality({a \in LimitAddrs : LimitOf(config, a).some})

\* C24: to_continuous writes Configuration (0x01), then HighLimit (0x02),
\* LowLimit (0x03), TemperatureOffset (0x08), each at most once and in that
\* order.  A write that fails is the last transaction; every write before it
\* stays on the device (after the edit the mode field of the device is
\* Continuous), and the call hands back no handle tagged Continuous.  A call
\* that succeeds has made the write of the edit and one for each given limit.
C24_OrderedWritesNoRollback ==
    op.name = "to_continuous"
        => /\ \A i, j \in RegWrites(trace) :
                 i < j => Rank(trace[i].bytes[1]) < Rank(trace[j].bytes[1])
           /\ \A i \in RegWrites(trace) :
                 /\ trace[i].bytes[1] \in {1, 2, 3, 8}
                 /\ ~trace[i].ok => i = Len(trace)
                 /\ trace[i].ok
                       => Held(dev, trace[i].bytes[1])
                             = IF trace[i].bytes[1] = 1 THEN Stored(WrittenWord(trace[i]))
                                                        ELSE WrittenWord(trace[i])
                 /\ (trace[i].ok /\ trace[i].bytes[1] = 1) => Field(dev.cfg, 10, 2) = 0
           /\ (pc = "idle" /\ result.st # "Ok") => mode # "Continuous"
           /\ (pc = "idle" /\ result.st = "Ok")
                 => /\ mode = "Continuous"
                    /\ Cardinality(RegWrites(trace)) = 1 + Given(op.arg)

C24_Witness ==
    /\ Done("to_continuous") /\ result.st = "Bus"
    /\ op.mode0 = "OneShot"
    /\ Len(trace) = 5
    /\ Field(ReadWord(trace[2]), 10, 2) = 3
    /\ IsWriteTo(trace[3], 1) /\ trace[3].ok
    /\ IsWriteTo(trace[4], 2) /\ trace[4].ok
    /\ IsWriteTo(trace[5], 3) /\ ~trace[5].ok
    /\ Field(dev.cfg, 10, 2) = 0
    /\ dev.high = WrittenWord(trace[4])
    /\ mode # "Continuous"

====
